---- MODULE Spec2Model ----
(***************************************************************************)
(* HH.gpt (src/main.py): a Streamlit script that gates a chat behind a     *)
(* non-empty-credential login, classifies each prompt's language, selects  *)
(* a system prompt and fetches one reply from an LLM endpoint.             *)
(*                                                                         *)
(* Text is modelled as a sequence of Unicode code points, so the regular   *)
(* expressions, str.lower() and the substring test are computed on the     *)
(* characters as the code computes them.                                   *)
(***************************************************************************)
EXTENDS Integers, Sequences, FiniteSets

VARIABLES
    messages,        \* st.session_state.messages
    logged_in,       \* st.session_state.logged_in
    show_login,      \* st.session_state.show_login
    username,        \* st.session_state.username
    login_username,  \* st.session_state.login_username (form widget)
    login_password,  \* st.session_state.login_password (form widget)
    prompt,          \* the text handed to get_gemini_reply
    lang,            \* get_gemini_reply: lang
    system_prompt,   \* get_gemini_reply: system_prompt
    request,         \* the messages list of the completion request in flight
    reply,           \* the value get_gemini_reply returned
    fetch_result,    \* outcome of asyncio.run(fetch()): "none", "ok", "raised"
    error,           \* what the run reported: "none", "invalid_credentials", "upstream"
    rendered,        \* the surfaces the last script run rendered
    last_run,        \* what the last script run handled
    pc,              \* position of the script: "idle", "fetching", "classify", "classified"
    turn_start       \* history: messages when the current chat turn began

vars == <<messages, logged_in, show_login, username, login_username,
          login_password, prompt, lang, system_prompt, request, reply,
          fetch_result, error, rendered, last_run, pc, turn_start>>

-----------------------------------------------------------------------------
(* Bounds *)

MaxTurns == 2
MaxLen == 3

-----------------------------------------------------------------------------
(* Texts, as code points *)

HowAreYou == <<72, 111, 119, 32, 97, 114, 101, 32, 121, 111, 117, 63>>
KyaHaalHai == <<107, 121, 97, 32, 104, 97, 97, 108, 32, 104, 97, 105>>
MeinTheekHoon == <<1605, 1740, 1722, 32, 1657, 1726, 1740, 1705, 32, 1729, 1608, 1722>>
Hello == <<72, 101, 108, 108, 111, 33>>
Digits == <<49, 50, 51>>
Alice == <<97, 108, 105, 99, 101>>
Secret == <<115, 101, 99, 114, 101, 116>>
Blank == <<32>>
NoContent == <<>>

\* H h o a p, space, '@' (just below 'A'), U+0600, U+06FF, U+0700
Alphabet == {72, 104, 111, 97, 112, 32, 64, 1536, 1791, 1792}

Texts == UNION {[1..n -> Alphabet] : n \in 0..MaxLen}

SampleTexts == {HowAreYou, KyaHaalHai, MeinTheekHoon, Hello, Digits}

ClassifierInputs == Texts \cup SampleTexts

ChatPrompts == {HowAreYou, KyaHaalHai, MeinTheekHoon}

Replies == {Hello, NoContent}

Credentials == {NoContent, Alice, Secret, Blank}

Truthy(s) == Len(s) > 0

-----------------------------------------------------------------------------
(* detect_language; re.findall gives the matching characters in order *)

roman_urdu_words ==
    { <<107, 97, 105, 115, 101>>,      \* kaise
      <<97, 112>>,                     \* ap
      <<109, 101, 105, 110>>,          \* mein
      <<104, 111>>,                    \* ho
      <<107, 121, 97>>,                \* kya
      <<97, 99, 104, 97>>,             \* acha
      <<110, 97, 104, 105>>,           \* nahi
      <<104, 97, 97, 110>>,            \* haan
      <<116, 104, 101, 101, 107>> }    \* theek

IsUrduChar(c) == c >= 1536 /\ c <= 1791

IsEnglishChar(c) == (c >= 65 /\ c <= 90) \/ (c >= 97 /\ c <= 122)

\* str.lower() on the characters modelled: A-Z map to a-z, the rest are caseless
LowerChar(c) == IF c >= 65 /\ c <= 90 THEN c + 32 ELSE c

Lower(text) == [i \in 1..Len(text) |-> LowerChar(text[i])]

\* Python's `word in s`: word occurs as a contiguous substring of s
Contains(s, word) ==
    \E k \in 0..(Len(s) - Len(word)) :
        \A j \in 1..Len(word) : s[k + j] = word[j]

detect_language_any_order(text) ==
    LET urdu_chars == SelectSeq(text, IsUrduChar)
        english_chars == SelectSeq(text, IsEnglishChar)
    IN  IF Truthy(urdu_chars)
        THEN "urdu"
        ELSE IF Truthy(english_chars)
             THEN IF \E word \in roman_urdu_words : Contains(Lower(text), word)
                  THEN "roman_urdu"
                  ELSE "english"
             ELSE "english"

detect_language(text) ==
    LET urdu_chars == SelectSeq(text, IsUrduChar)
        english_chars == SelectSeq(text, IsEnglishChar)
    IN  IF Truthy(urdu_chars) /\ ~Truthy(english_chars)
        THEN "urdu"
        ELSE IF Truthy(english_chars)
             THEN IF \E word \in roman_urdu_words : Contains(Lower(text), word)
                  THEN "roman_urdu"
                  ELSE "english"
             ELSE "english"

\* get_gemini_reply's if/elif/else over lang
SelectPrompt(l) ==
    IF l = "urdu" THEN "urdu_prompt"
    ELSE IF l = "roman_urdu" THEN "roman_urdu_prompt"
    ELSE "english_prompt"

BuildRequest(sp, p) ==
    << [role |-> "system", content |-> sp], [role |-> "user", content |-> p] >>

-----------------------------------------------------------------------------
(* Session *)

\* what a script run renders, from the state it starts in
Render(li, sl) ==
    (IF li THEN {"welcome"} ELSE {})
    \cup (IF sl THEN {"login_form"} ELSE IF li THEN {"chat"} ELSE {})

Init ==
    /\ messages = <<>>
    /\ logged_in = FALSE
    /\ show_login = TRUE
    /\ username = NoContent
    /\ login_username = NoContent
    /\ login_password = NoContent
    /\ prompt = NoContent
    /\ lang = "none"
    /\ system_prompt = "none"
    /\ request = <<>>
    /\ reply = NoContent
    /\ fetch_result = "none"
    /\ error = "none"
    /\ rendered = Render(FALSE, TRUE)
    /\ last_run = "start"
    /\ pc = "idle"
    /\ turn_start = <<>>

login_nostore(u, p) ==
    IF Truthy(u) /\ Truthy(p)
    THEN /\ logged_in' = TRUE
         /\ show_login' = FALSE
         /\ username' = username
         /\ error' = "none"
    ELSE /\ UNCHANGED <<logged_in, show_login, username>>
         /\ error' = "invalid_credentials"

login_or(u, p) ==
    IF Truthy(u) \/ Truthy(p)
    THEN /\ logged_in' = TRUE
         /\ show_login' = FALSE
         /\ username' = u
         /\ error' = "none"
    ELSE /\ UNCHANGED <<logged_in, show_login, username>>
         /\ error' = "invalid_credentials"

login_keepform(u, p) ==
    IF Truthy(u) /\ Truthy(p)
    THEN /\ logged_in' = TRUE
         /\ show_login' = show_login
         /\ username' = u
         /\ error' = "none"
    ELSE /\ UNCHANGED <<logged_in, show_login, username>>
         /\ error' = "invalid_credentials"

login_hide_on_fail(u, p) ==
    IF Truthy(u) /\ Truthy(p)
    THEN /\ logged_in' = TRUE
         /\ show_login' = FALSE
         /\ username' = u
         /\ error' = "none"
    ELSE /\ UNCHANGED <<logged_in, username>>
         /\ show_login' = FALSE
         /\ error' = "invalid_credentials"

login(u, p) ==
    IF Truthy(u) /\ Truthy(p)
    THEN /\ logged_in' = TRUE
         /\ show_login' = FALSE
         /\ username' = u
         /\ error' = "none"
    ELSE /\ UNCHANGED <<logged_in, show_login, username>>
         /\ error' = "invalid_credentials"

\* a script run with the login form submitted
LoginSubmit(u, p) ==
    /\ pc = "idle"
    /\ show_login
    /\ login_username' = u
    /\ login_password' = p
    /\ login(u, p)
    /\ rendered' = Render(logged_in, show_login)
    /\ last_run' = "login"
    /\ UNCHANGED <<messages, prompt, lang, system_prompt, request, reply,
                   fetch_result, pc, turn_start>>

\* a script run with no form submitted and no chat input
Rerun ==
    /\ pc = "idle"
    /\ rendered' = Render(logged_in, show_login)
    /\ error' = "none"
    /\ last_run' = "render"
    /\ UNCHANGED <<messages, logged_in, show_login, username, login_username,
                   login_password, prompt, lang, system_prompt, request, reply,
                   fetch_result, pc, turn_start>>

ChatSubmit_ungated(p) ==
    /\ pc = "idle"
    /\ Truthy(p)
    /\ Len(messages) + 2 <= 2 * MaxTurns
    /\ turn_start' = messages
    /\ messages' = Append(messages, [role |-> "user", content |-> p])
    /\ prompt' = p
    /\ lang' = detect_language(p)
    /\ system_prompt' = SelectPrompt(lang')
    /\ request' = BuildRequest(system_prompt', p)
    /\ fetch_result' = "none"
    /\ error' = "none"
    /\ rendered' = Render(logged_in, show_login)
    /\ last_run' = "turn"
    /\ pc' = "fetching"
    /\ UNCHANGED <<logged_in, show_login, username, login_username,
                   login_password, reply>>

\* a script run with chat input, up to the point where the fetch is awaited
ChatSubmit(p) ==
    /\ pc = "idle"
    /\ ~show_login
    /\ logged_in
    /\ Truthy(p)
    /\ Len(messages) + 2 <= 2 * MaxTurns
    /\ turn_start' = messages
    /\ messages' = Append(messages, [role |-> "user", content |-> p])
    /\ prompt' = p
    /\ lang' = detect_language(p)
    /\ system_prompt' = SelectPrompt(lang')
    /\ request' = BuildRequest(system_prompt', p)
    /\ fetch_result' = "none"
    /\ error' = "none"
    /\ rendered' = Render(logged_in, show_login)
    /\ last_run' = "turn"
    /\ pc' = "fetching"
    /\ UNCHANGED <<logged_in, show_login, username, login_username,
                   login_password, reply>>

FetchReturn_echo(r) ==
    /\ pc = "fetching"
    /\ reply' = r
    /\ fetch_result' = "ok"
    /\ messages' = Append(messages, [role |-> "assistant", content |-> prompt])
    /\ pc' = "idle"
    /\ UNCHANGED <<logged_in, show_login, username, login_username,
                   login_password, prompt, lang, system_prompt, request,
                   error, rendered, last_run, turn_start>>

\* the fetch returns the first choice's content; the rest of the run
FetchReturn(r) ==
    /\ pc = "fetching"
    /\ reply' = r
    /\ fetch_result' = "ok"
    /\ messages' = Append(messages, [role |-> "assistant", content |-> r])
    /\ pc' = "idle"
    /\ UNCHANGED <<logged_in, show_login, username, login_username,
                   login_password, prompt, lang, system_prompt, request,
                   error, rendered, last_run, turn_start>>

FetchRaise_rollback ==
    /\ pc = "fetching"
    /\ fetch_result' = "raised"
    /\ error' = "upstream"
    /\ messages' = SubSeq(messages, 1, Len(messages) - 1)
    /\ pc' = "idle"
    /\ UNCHANGED <<logged_in, show_login, username, login_username,
                   login_password, prompt, lang, system_prompt, request,
                   reply, rendered, last_run, turn_start>>

\* the fetch raises; nothing catches it and the run ends there
FetchRaise ==
    /\ pc = "fetching"
    /\ fetch_result' = "raised"
    /\ error' = "upstream"
    /\ pc' = "idle"
    /\ UNCHANGED <<messages, logged_in, show_login, username, login_username,
                   login_password, prompt, lang, system_prompt, request,
                   reply, rendered, last_run, turn_start>>

Next ==
    \/ \E u \in Credentials, p \in Credentials : LoginSubmit(u, p)
    \/ Rerun
    \/ \E p \in ChatPrompts : ChatSubmit(p)
    \/ \E r \in Replies : FetchReturn(r)
    \/ FetchRaise

Spec == Init /\ [][Next]_vars

-----------------------------------------------------------------------------
(* The classifier and the prompt selection on their own *)

InitClassify ==
    /\ messages = <<>>
    /\ logged_in = FALSE
    /\ show_login = TRUE
    /\ username = NoContent
    /\ login_username = NoContent
    /\ login_password = NoContent
    /\ prompt \in ClassifierInputs
    /\ lang = "none"
    /\ system_prompt = "none"
    /\ request = <<>>
    /\ reply = NoContent
    /\ fetch_result = "none"
    /\ error = "none"
    /\ rendered = Render(FALSE, TRUE)
    /\ last_run = "start"
    /\ pc = "classify"
    /\ turn_start = <<>>

\* get_gemini_reply up to the definition of fetch
PrepareRequest ==
    /\ pc = "classify"
    /\ lang' = detect_language(prompt)
    /\ system_prompt' = SelectPrompt(lang')
    /\ request' = BuildRequest(system_prompt', prompt)
    /\ pc' = "classified"
    /\ UNCHANGED <<messages, logged_in, show_login, username, login_username,
                   login_password, prompt, reply, fetch_result, error,
                   rendered, last_run, turn_start>>

NextClassify == PrepareRequest

SpecClassify == InitClassify /\ [][NextClassify]_vars

-----------------------------------------------------------------------------
(* Properties *)

HasUrduChar(text) == \E i \in DOMAIN text : text[i] \in 1536..1791

HasLatinLetter(text) == \E i \in DOMAIN text : text[i] \in (65..90) \cup (97..122)

IsLetterAt(text, i) == i \in DOMAIN text /\ text[i] \in (65..90) \cup (97..122)

\* word occurs in text as a whole word, ignoring case
HasWord(text, word) ==
    \E k \in 0..(Len(text) - Len(word)) :
        /\ \A j \in 1..Len(word) :
              text[k + j] \in {word[j], word[j] - 32}
        /\ ~IsLetterAt(text, k)
        /\ ~IsLetterAt(text, k + Len(word) + 1)

ValidSubmission == Len(login_username) > 0 /\ Len(login_password) > 0

UserEntry(t) == [role |-> "user", content |-> t]

AssistantEntry(t) == [role |-> "assistant", content |-> t]

IsPrefix(s, t) == Len(s) <= Len(t) /\ \A i \in 1..Len(s) : s[i] = t[i]

\* C1: after a login submission with non-empty username and password the
\* session has logged_in = true, show_login = false and username equal to the
\* submitted username; after a submission with an empty username or an empty
\* password logged_in is not true.
C1_LoginSucceedsIffNonEmpty ==
    last_run = "login" =>
        /\ ValidSubmission =>
              (logged_in /\ ~show_login /\ username = login_username)
        /\ ~ValidSubmission => ~logged_in

C1_Witness ==
    last_run = "login" /\ login_username = Alice /\ login_password = Secret
        /\ logged_in

\* C2: a login submission with an empty username or an empty password reports
\* the invalid-credentials error, leaves logged_in, show_login, username and
\* messages unchanged, and the login form stays visible.
C2_FailedLoginChangesNothing ==
    [][(last_run' = "login" /\ ~ValidSubmission')
          => /\ error' = "invalid_credentials"
             /\ UNCHANGED <<logged_in, show_login, username, messages>>
             /\ show_login'
             /\ pc' = "idle"]_vars

C2_Witness ==
    last_run = "login" /\ login_username = Alice /\ login_password = NoContent
        /\ error = "invalid_credentials"

\* C3: while the fetch of a turn is awaited, messages is the history before
\* the turn followed by the user entry alone; after the fetch has returned,
\* messages is the history before the turn followed by the user entry with the
\* submitted text and then the assistant entry with the fetched reply.
C3_SuccessfulTurnAppendsTwo ==
    /\ pc = "fetching" => messages = Append(turn_start, UserEntry(prompt))
    /\ (last_run = "turn" /\ pc = "idle" /\ fetch_result = "ok") =>
          messages = turn_start \o <<UserEntry(prompt), AssistantEntry(reply)>>

C3_Witness ==
    /\ last_run = "turn" /\ pc = "idle" /\ fetch_result = "ok"
    /\ Len(turn_start) = 2 /\ Len(messages) = 4
    /\ prompt = KyaHaalHai /\ reply = Hello

\* C4: after a chat turn whose fetch failed, messages equals messages as it
\* was before the turn began.
C4_FailedTurnPreservesHistory ==
    (last_run = "turn" /\ pc = "idle" /\ fetch_result = "raised") =>
        messages = turn_start

\* C5: show_login and logged_in are never both true, and no script run renders
\* both the login form and the chat surface.
C5_LoginAndChatExclusive ==
    /\ ~(show_login /\ logged_in)
    /\ ~({"login_form", "chat"} \subseteq rendered)

C5_Witness == logged_in /\ "chat" \in rendered /\ last_run = "render"

\* C6: whenever logged_in is true, username is a non-empty string.
C6_LoggedInHasUsername == logged_in => Len(username) > 0

C6_Witness == logged_in /\ username = Blank /\ Len(messages) > 0

\* C7: messages is append-only: in every step the value of messages before
\* the step is a prefix of its value after the step.
C7_MessagesAppendOnly == [][IsPrefix(messages, messages')]_vars

C7_Witness ==
    /\ last_run = "turn" /\ pc = "idle" /\ fetch_result = "raised"
    /\ Len(messages) = 3

\* C8: every input with at least one Latin letter and none of the marker
\* words is classified english and gets the English system prompt; in
\* particular "How are you?" is.
C8_NoMarkerWordIsEnglish ==
    (pc = "classified"
        /\ HasLatinLetter(prompt)
        /\ (prompt = HowAreYou \/ \A w \in roman_urdu_words : ~HasWord(prompt, w)))
    => (lang = "english" /\ system_prompt = "english_prompt")

\* C9: the classifier returns urdu exactly when the text has a character in
\* U+0600..U+06FF and no Latin letter; text with neither kind of character is
\* english.
C9_UrduIffArabicAndNoLatin ==
    pc = "classified" =>
        /\ lang = "urdu" <=> (HasUrduChar(prompt) /\ ~HasLatinLetter(prompt))
        /\ (~HasUrduChar(prompt) /\ ~HasLatinLetter(prompt)) => lang = "english"

C9_Witness ==
    pc = "classified" /\ HasUrduChar(prompt) /\ HasLatinLetter(prompt)
        /\ lang = "roman_urdu"

\* C10: messages and the request change only in a step taken with
\* logged_in = true and show_login = false; messages is empty whenever
\* logged_in is false; once logged_in is true it stays true and show_login
\* stays false.
C10_LoginGateGuardsChat ==
    /\ [](~logged_in => messages = <<>>)
    /\ [][(messages' # messages \/ request' # request)
             => (logged_in /\ ~show_login)]_vars
    /\ [][logged_in => (logged_in' /\ ~show_login')]_vars

C10_Witness == logged_in /\ ~show_login /\ pc = "fetching" /\ Len(messages) = 1

====
